---- MODULE Spec2Model ----
(***************************************************************************)
(* Model of omfsi/modal_structure_component.py: the modal structural       *)
(* solver of the fluid-structure coupling (ModalStructAssembler,           *)
(* ModalDecomp, ModalSolver, ModalForces, ModalDisplacements).             *)
(*                                                                         *)
(* Floating-point numbers are modelled as exact rationals plus the IEEE    *)
(* values inf, -inf and nan that numpy produces on a division by zero;     *)
(* rounding is not modelled.                                               *)
(***************************************************************************)
EXTENDS Integers, Sequences, FiniteSets, TLC

(* ------------------------------------------------------------------ *)
(* Bounds of the model                                                 *)
(* ------------------------------------------------------------------ *)
\* number of modes kept (solver_options['nmodes'])
NModes == 2
\* length of the nodal vectors f_s / u_s seen by the projection components
NodeSize == 2
\* largest value the runtime writes into a vector
MaxVal == 1
\* number of entries of a component's vectors that differ from their defaults
MaxDev == 2
\* nodes of the finite-element mesh
MaxNodes == 2
\* degrees of freedom per node of the finite-element model
MaxNdof == 4
\* number of design variables of the finite-element model
MaxNdv == 1
\* number of communicators get_tacs is called with
NComms == 2
\* number of distinct design-variable vectors the decomposition is run with
NDesigns == 2
\* number of get_tacs calls on one assembler
MaxGetTacs == 3

(* ------------------------------------------------------------------ *)
(* numpy float64 arithmetic                                            *)
(* ------------------------------------------------------------------ *)
Abs(x) == IF x < 0 THEN -x ELSE x

RECURSIVE GCD(_, _)
GCD(a, b) == IF b = 0 THEN a ELSE GCD(b, a % b)

\* a finite number n/d in lowest terms, d > 0
Num(n, d) ==
    LET g == GCD(Abs(n), Abs(d))
        s == IF d < 0 THEN -1 ELSE 1
    IN  [is |-> "num", n |-> (s * n) \div g, d |-> (s * d) \div g]

Flt(i)  == [is |-> "num", n |-> i, d |-> 1]
Zero    == Flt(0)
One     == Flt(1)
PosInf  == [is |-> "inf", n |-> 0, d |-> 1]
NegInf  == [is |-> "ninf", n |-> 0, d |-> 1]
NaN     == [is |-> "nan", n |-> 0, d |-> 1]

IsNum(x) == x.is = "num"
\* sign of a value that is not nan: -1, 0 or 1
Sign(x) ==
    CASE x.is = "inf"  -> 1
      [] x.is = "ninf" -> -1
      [] OTHER        -> IF x.n > 0 THEN 1 ELSE IF x.n < 0 THEN -1 ELSE 0
Signed(s) == IF s > 0 THEN PosInf ELSE NegInf

\* unary minus
RNeg(x) ==
    CASE x.is = "num"  -> [x EXCEPT !.n = -x.n]
      [] x.is = "inf"  -> NegInf
      [] x.is = "ninf" -> PosInf
      [] OTHER        -> NaN

\* a + b
RAdd(a, b) ==
    CASE a.is = "nan" \/ b.is = "nan"     -> NaN
      [] IsNum(a) /\ IsNum(b)           -> Num(a.n * b.d + b.n * a.d, a.d * b.d)
      [] IsNum(a)                       -> b
      [] IsNum(b)                       -> a
      [] OTHER                          -> IF a.is = b.is THEN a ELSE NaN

\* a * b
RMul(a, b) ==
    CASE a.is = "nan" \/ b.is = "nan"     -> NaN
      [] IsNum(a) /\ IsNum(b)           -> Num(a.n * b.n, a.d * b.d)
      [] OTHER                          ->
            IF Sign(a) * Sign(b) = 0 THEN NaN ELSE Signed(Sign(a) * Sign(b))

\* a / b; a zero divisor is +0.0
RDiv(a, b) ==
    CASE a.is = "nan" \/ b.is = "nan"     -> NaN
      [] IsNum(a) /\ IsNum(b)           ->
            IF b.n # 0 THEN Num(a.n * b.d, a.d * b.n)
            ELSE IF a.n = 0 THEN NaN ELSE Signed(a.n)
      [] IsNum(a)                       -> Zero
      [] IsNum(b)                       ->
            Signed(Sign(a) * (IF b.n < 0 THEN -1 ELSE 1))
      [] OTHER                          -> NaN

\* range(n)
Range(n) == 0 .. (n - 1)

\* np.sum of the array f over range(n), accumulated from index 0
RECURSIVE NpSum(_, _)
NpSum(f, n) == IF n = 0 THEN Zero ELSE RAdd(NpSum(f, n - 1), f[n - 1])

\* the inner product of two arrays of length n
Inner(a, b, n) == NpSum([j \in Range(n) |-> RMul(a[j], b[j])], n)


\* the number of entries of an array indexed from 0
Size(a) == Cardinality(DOMAIN a)

\* an array of n zeros / ones
Zeros(n) == [j \in Range(n) |-> Zero]
Ones(n)  == [j \in Range(n) |-> One]

(* ------------------------------------------------------------------ *)
(* openmdao options dictionary                                         *)
(* ------------------------------------------------------------------ *)
\* self.options[name] raises KeyError for an option that was not declared
OptionDeclared(self, name) == name \in DOMAIN self.options

(* ------------------------------------------------------------------ *)
(* ModalSolver                                                         *)
(* ------------------------------------------------------------------ *)
\* ModalSolver after initialize() and setup()
ModalSolver_init ==
    [cls |-> "ModalSolver", options |-> [nmodes |-> NModes]]

ModalSolver_defaults ==
    [inputs    |-> [k |-> Ones(NModes), mf |-> Ones(NModes)],
     outputs   |-> [z |-> Ones(NModes)],
     d_inputs  |-> [k |-> Zeros(NModes), mf |-> Zeros(NModes)],
     d_outputs |-> [z |-> Zeros(NModes)]]

\* outputs['z'] = inputs['mf'] / inputs['k']
ModalSolver_compute(self, inputs, outputs) ==
    [status  |-> "ok",
     outputs |-> [outputs EXCEPT !.z =
                    [i \in DOMAIN inputs.mf |-> RDiv(inputs.mf[i], inputs.k[i])]]]

\* the product with inputs['k'] in place of inputs['k']**2.0
ModalSolver_compute_jacvec_product_k1(self, inputs, d_inputs, d_outputs, mode) ==
    LET dmf_k(d)  == [i \in DOMAIN inputs.k |-> RDiv(d[i], inputs.k[i])]
        mf_k1(d)  == [i \in DOMAIN inputs.k |->
                        RMul(RDiv(RNeg(inputs.mf[i]), inputs.k[i]), d[i])]
        plus(a, b) == [i \in DOMAIN a |-> RAdd(a[i], b[i])]
    IN
    IF mode = "fwd" /\ "z" \in DOMAIN d_outputs THEN
        LET z1 == IF "mf" \in DOMAIN d_inputs
                  THEN plus(d_outputs.z, dmf_k(d_inputs.mf)) ELSE d_outputs.z
            z2 == IF "k" \in DOMAIN d_inputs
                  THEN plus(z1, mf_k1(d_inputs.k)) ELSE z1
        IN  [status |-> "ok", d_inputs |-> d_inputs,
             d_outputs |-> [d_outputs EXCEPT !.z = z2]]
    ELSE IF mode = "rev" /\ "z" \in DOMAIN d_outputs THEN
        LET d1 == IF "mf" \in DOMAIN d_inputs
                  THEN [d_inputs EXCEPT !.mf = plus(@, dmf_k(d_outputs.z))]
                  ELSE d_inputs
            d2 == IF "k" \in DOMAIN d_inputs
                  THEN [d1 EXCEPT !.k = plus(@, mf_k1(d_outputs.z))]
                  ELSE d1
        IN  [status |-> "ok", d_inputs |-> d2, d_outputs |-> d_outputs]
    ELSE [status |-> "ok", d_inputs |-> d_inputs, d_outputs |-> d_outputs]

ModalSolver_compute_jacvec_product(self, inputs, d_inputs, d_outputs, mode) ==
    LET \* d_inputs['mf'] / inputs['k']
        dmf_k(d)  == [i \in DOMAIN inputs.k |-> RDiv(d[i], inputs.k[i])]
        \* - inputs['mf'] / (inputs['k']**2.0) * d
        mf_k2(d)  == [i \in DOMAIN inputs.k |->
                        RMul(RDiv(RNeg(inputs.mf[i]),
                                  RMul(inputs.k[i], inputs.k[i])), d[i])]
        plus(a, b) == [i \in DOMAIN a |-> RAdd(a[i], b[i])]
    IN
    IF mode = "fwd" /\ "z" \in DOMAIN d_outputs THEN
        LET z1 == IF "mf" \in DOMAIN d_inputs
                  THEN plus(d_outputs.z, dmf_k(d_inputs.mf)) ELSE d_outputs.z
            z2 == IF "k" \in DOMAIN d_inputs
                  THEN plus(z1, mf_k2(d_inputs.k)) ELSE z1
        IN  [status |-> "ok", d_inputs |-> d_inputs,
             d_outputs |-> [d_outputs EXCEPT !.z = z2]]
    ELSE IF mode = "rev" /\ "z" \in DOMAIN d_outputs THEN
        LET d1 == IF "mf" \in DOMAIN d_inputs
                  THEN [d_inputs EXCEPT !.mf = plus(@, dmf_k(d_outputs.z))]
                  ELSE d_inputs
            d2 == IF "k" \in DOMAIN d_inputs
                  THEN [d1 EXCEPT !.k = plus(@, mf_k2(d_outputs.z))]
                  ELSE d1
        IN  [status |-> "ok", d_inputs |-> d2, d_outputs |-> d_outputs]
    ELSE [status |-> "ok", d_inputs |-> d_inputs, d_outputs |-> d_outputs]

(* ------------------------------------------------------------------ *)
(* ModalForces                                                         *)
(* ------------------------------------------------------------------ *)
\* ModalStructAssembler.get_modal_sizes as seen by the projection components
get_modal_sizes == <<NModes, NodeSize>>

\* ModalForces after initialize() and setup()
ModalForces_init ==
    [cls |-> "ModalForces", options |-> [get_modal_sizes |-> "callable"],
     nmodes |-> get_modal_sizes[1], node_size |-> get_modal_sizes[2]]

ModalForces_defaults ==
    [inputs    |-> [mode_shape |-> [i \in Range(NModes) |-> Ones(NodeSize)],
                    f_s |-> Ones(NodeSize)],
     outputs   |-> [mf |-> Ones(NModes)],
     d_inputs  |-> [mode_shape |-> [i \in Range(NModes) |-> Zeros(NodeSize)],
                    f_s |-> Zeros(NodeSize)],
     d_outputs |-> [mf |-> Zeros(NModes)]]

\* np.sum(mode_shape[imode,:] * v[:])
RowDot(mode_shape, imode, v) == Inner(mode_shape[imode], v, Size(v))

\* v[:] += mode_shape[imode,:] * c[imode] for imode in range(n), in that order
RECURSIVE AddRows(_, _, _, _)
AddRows(v, mode_shape, c, n) ==
    IF n = 0 THEN v
    ELSE LET w == AddRows(v, mode_shape, c, n - 1)
         IN  [j \in DOMAIN w |-> RAdd(w[j], RMul(mode_shape[n - 1][j], c[n - 1]))]

\* compute that adds each projection to what mf held
ModalForces_compute_adding(self, inputs, outputs) ==
    [status  |-> "ok",
     outputs |-> [outputs EXCEPT !.mf =
                    [i \in DOMAIN @ |->
                        IF i \in Range(self.nmodes)
                        THEN RAdd(@[i], RowDot(inputs.mode_shape, i, inputs.f_s))
                        ELSE @[i]]]]

ModalForces_compute(self, inputs, outputs) ==
    LET cleared == [i \in DOMAIN outputs.mf |-> Zero]
    IN  [status  |-> "ok",
         outputs |-> [outputs EXCEPT !.mf =
                        [i \in DOMAIN cleared |->
                            IF i \in Range(self.nmodes)
                            THEN RowDot(inputs.mode_shape, i, inputs.f_s)
                            ELSE cleared[i]]]]

\* the product that also propagates the seed to the tangent of mode_shape
ModalForces_compute_jacvec_product_shape(self, inputs, d_inputs, d_outputs, mode) ==
    IF mode = "rev" /\ "mf" \in DOMAIN d_outputs /\ "mode_shape" \in DOMAIN d_inputs THEN
        [status |-> "ok",
         d_inputs |-> [d_inputs EXCEPT !.mode_shape =
                         [i \in DOMAIN @ |-> [j \in DOMAIN @[i] |->
                            RAdd(@[i][j], RMul(inputs.f_s[j], d_outputs.mf[i]))]]],
         d_outputs |-> d_outputs]
    ELSE [status |-> "ok", d_inputs |-> d_inputs, d_outputs |-> d_outputs]

ModalForces_compute_jacvec_product(self, inputs, d_inputs, d_outputs, mode) ==
    IF mode \in {"fwd", "rev"} /\ "mf" \in DOMAIN d_outputs /\ "f_s" \in DOMAIN d_inputs THEN
        IF ~OptionDeclared(self, "nmodes") THEN
            [status |-> "KeyError", d_inputs |-> d_inputs, d_outputs |-> d_outputs]
        ELSE IF mode = "fwd" THEN
            [status |-> "ok", d_inputs |-> d_inputs,
             d_outputs |-> [d_outputs EXCEPT !.mf =
                             [i \in DOMAIN @ |->
                                IF i \in Range(self.options.nmodes)
                                THEN RAdd(@[i], RowDot(inputs.mode_shape, i, d_inputs.f_s))
                                ELSE @[i]]]]
        ELSE
            [status |-> "ok",
             d_inputs |-> [d_inputs EXCEPT !.f_s =
                             AddRows(@, inputs.mode_shape, d_outputs.mf, self.options.nmodes)],
             d_outputs |-> d_outputs]
    ELSE [status |-> "ok", d_inputs |-> d_inputs, d_outputs |-> d_outputs]

(* ------------------------------------------------------------------ *)
(* ModalDisplacements                                                  *)
(* ------------------------------------------------------------------ *)
\* ModalDisplacements after initialize() and setup()
ModalDisplacements_init ==
    [cls |-> "ModalDisplacements", options |-> [get_modal_sizes |-> "callable"],
     nmodes |-> get_modal_sizes[1], node_size |-> get_modal_sizes[2]]

ModalDisplacements_defaults ==
    [inputs    |-> [mode_shape |-> [i \in Range(NModes) |-> Ones(NodeSize)],
                    z |-> Ones(NModes)],
     outputs   |-> [u_s |-> Ones(NodeSize)],
     d_inputs  |-> [mode_shape |-> [i \in Range(NModes) |-> Zeros(NodeSize)],
                    z |-> Zeros(NModes)],
     d_outputs |-> [u_s |-> Zeros(NodeSize)]]

\* compute without outputs['u_s'][:] = 0.0
ModalDisplacements_compute_uncleared(self, inputs, outputs) ==
    [status  |-> "ok",
     outputs |-> [outputs EXCEPT !.u_s =
                    AddRows(@, inputs.mode_shape, inputs.z, self.nmodes)]]

ModalDisplacements_compute(self, inputs, outputs) ==
    LET cleared == [j \in DOMAIN outputs.u_s |-> Zero]
    IN  [status  |-> "ok",
         outputs |-> [outputs EXCEPT !.u_s =
                        AddRows(cleared, inputs.mode_shape, inputs.z, self.nmodes)]]

ModalDisplacements_compute_jacvec_product(self, inputs, d_inputs, d_outputs, mode) ==
    IF mode \in {"fwd", "rev"} /\ "u_s" \in DOMAIN d_outputs /\ "z" \in DOMAIN d_inputs THEN
        IF ~OptionDeclared(self, "nmodes") THEN
            [status |-> "KeyError", d_inputs |-> d_inputs, d_outputs |-> d_outputs]
        ELSE IF mode = "fwd" THEN
            [status |-> "ok", d_inputs |-> d_inputs,
             d_outputs |-> [d_outputs EXCEPT !.u_s =
                             AddRows(@, inputs.mode_shape, d_inputs.z, self.options.nmodes)]]
        ELSE
            [status |-> "ok",
             d_inputs |-> [d_inputs EXCEPT !.z =
                             [i \in DOMAIN @ |->
                                IF i \in Range(self.options.nmodes)
                                THEN RAdd(@[i], RowDot(inputs.mode_shape, i, d_outputs.u_s))
                                ELSE @[i]]],
             d_outputs |-> d_outputs]
    ELSE [status |-> "ok", d_inputs |-> d_inputs, d_outputs |-> d_outputs]


(* ------------------------------------------------------------------ *)
(* One component instance driven by the coupling runtime               *)
(* ------------------------------------------------------------------ *)
VARIABLES
    comp,   \* the component instance (self): class, options, attributes
    run,    \* what the runtime is doing: "nonlinear" (compute) or "linear"
            \* (compute_jacvec_product)
    vecs,   \* the component's vectors: inputs, outputs, d_inputs, d_outputs
    last    \* the most recent call: operation, mode, outcome, vectors before it

compVars == <<comp, run, vecs, last>>

VARIABLES
    asm,     \* the ModalStructAssembler: tacs, comm, ndof, ndv, nnodes, nmodes
    fe,      \* the finite-element library: meshes loaded, models created, the model
    calls,   \* calls on the assembler: count of get_tacs, last returns, first result
    decomp   \* the ModalDecomp component

decompVars == <<asm, fe, calls, decomp>>

\* the values the runtime writes into a variable: a modal stiffness of either
\* sign, anything else non-negative
Vals(name) ==
    IF name = "k" THEN {Flt(i) : i \in (-MaxVal) .. MaxVal}
    ELSE {Flt(i) : i \in 0 .. MaxVal}

\* vectors of a component after setup(): add_input / add_output values,
\* zeroed derivative vectors
Defaults(cls) ==
    CASE cls = "ModalForces"        -> ModalForces_defaults
      [] cls = "ModalSolver"        -> ModalSolver_defaults
      [] cls = "ModalDisplacements" -> ModalDisplacements_defaults

\* the vectors the runtime fills before a nonlinear / a linear run
Bufs(r) ==
    IF r = "nonlinear" THEN {"inputs", "outputs"}
    ELSE {"inputs", "d_inputs", "d_outputs"}

\* the entries <<buffer, variable, index>> of the vectors v in the buffers bufs
Slots(v, bufs) ==
    UNION { UNION { IF name = "mode_shape"
                    THEN {<<buf, name, <<i, j>>>> :
                            i \in DOMAIN v[buf][name], j \in Range(NodeSize)}
                    ELSE {<<buf, name, <<i>>>> : i \in DOMAIN v[buf][name]}
                  : name \in DOMAIN v[buf] }
          : buf \in bufs }

AllBufs == {"inputs", "outputs", "d_inputs", "d_outputs"}

Present(v, s) == s[2] \in DOMAIN v[s[1]]

Get(v, s) ==
    IF Len(s[3]) = 2 THEN v[s[1]][s[2]][s[3][1]][s[3][2]]
    ELSE v[s[1]][s[2]][s[3][1]]

Put(v, s, x) ==
    IF Len(s[3]) = 2 THEN [v EXCEPT ![s[1]][s[2]][s[3][1]][s[3][2]] = x]
    ELSE [v EXCEPT ![s[1]][s[2]][s[3][1]] = x]

\* the variables of the derivative vectors, which the runtime may leave out
DVars(v) ==
    UNION {{<<buf, name>> : name \in DOMAIN v[buf]} : buf \in {"d_inputs", "d_outputs"}}

Without(v, buf, name) ==
    [v EXCEPT ![buf] = [n \in (DOMAIN @) \ {name} |-> @[n]]]

\* how far the vectors v are from the defaults dflt: entries that differ,
\* plus derivative variables left out
Dev(v, dflt) ==
    Cardinality({s \in Slots(dflt, AllBufs) : Present(v, s) /\ Get(v, s) # Get(dflt, s)})
    + Cardinality(DVars(dflt) \ DVars(v))

\* dispatch of compute to the component's class
compute(self, inputs, outputs) ==
    CASE self.cls = "ModalForces"        -> ModalForces_compute(self, inputs, outputs)
      [] self.cls = "ModalSolver"        -> ModalSolver_compute(self, inputs, outputs)
      [] self.cls = "ModalDisplacements" -> ModalDisplacements_compute(self, inputs, outputs)

\* dispatch of compute_jacvec_product to the component's class
compute_jacvec_product(self, inputs, d_inputs, d_outputs, mode) ==
    CASE self.cls = "ModalForces" ->
            ModalForces_compute_jacvec_product(self, inputs, d_inputs, d_outputs, mode)
      [] self.cls = "ModalSolver" ->
            ModalSolver_compute_jacvec_product(self, inputs, d_inputs, d_outputs, mode)
      [] self.cls = "ModalDisplacements" ->
            ModalDisplacements_compute_jacvec_product(self, inputs, d_inputs, d_outputs, mode)

NoCall == [op |-> "none", mode |-> "none", status |-> "none", nth |-> 0]

CompInit ==
    /\ comp \in {ModalForces_init, ModalSolver_init, ModalDisplacements_init}
    /\ run \in {"nonlinear", "linear"}
    /\ vecs = Defaults(comp.cls)
    /\ last = [call |-> NoCall, pre |-> vecs]

\* the runtime writes one entry of a vector before it runs the component
Write ==
    /\ last.call.op = "none"
    /\ LET dflt == Defaults(comp.cls)
           dev  == Dev(vecs, dflt)
           \* 1 if the value x of entry s is not its default
           off(s, x) == IF x # Get(dflt, s) THEN 1 ELSE 0
       IN  \E s \in Slots(vecs, Bufs(run)) : \E x \in Vals(s[2]) :
              /\ x # Get(vecs, s)
              /\ dev - off(s, Get(vecs, s)) + off(s, x) <= MaxDev
              /\ vecs' = Put(vecs, s, x)
    /\ UNCHANGED <<comp, run, last>>
    /\ UNCHANGED decompVars

\* the runtime leaves a variable out of a derivative vector
Drop ==
    /\ last.call.op = "none"
    /\ run = "linear"
    /\ \E d \in DVars(vecs) :
          /\ Dev(Without(vecs, d[1], d[2]), Defaults(comp.cls)) <= MaxDev
          /\ vecs' = Without(vecs, d[1], d[2])
    /\ UNCHANGED <<comp, run, last>>
    /\ UNCHANGED decompVars

\* the runtime calls compute(inputs, outputs); it may call it again
Compute ==
    /\ run = "nonlinear"
    /\ LET r == compute(comp, vecs.inputs, vecs.outputs)
       IN  /\ vecs' = [vecs EXCEPT !.outputs = r.outputs]
           /\ last' = [call |-> [op |-> "compute", mode |-> "none", status |-> r.status,
                                 nth |-> IF last.call.nth = 0 THEN 1 ELSE 2],
                       pre |-> vecs]
    /\ UNCHANGED <<comp, run>>
    /\ UNCHANGED decompVars

\* the runtime calls compute_jacvec_product(inputs, d_inputs, d_outputs, mode)
JacvecProduct ==
    /\ run = "linear"
    /\ last.call.op = "none"
    /\ \E mode \in {"fwd", "rev"} :
          LET r == compute_jacvec_product(comp, vecs.inputs, vecs.d_inputs,
                                          vecs.d_outputs, mode)
          IN  /\ vecs' = [vecs EXCEPT !.d_inputs = r.d_inputs,
                                      !.d_outputs = r.d_outputs]
              /\ last' = [call |-> [op |-> "jacvec", mode |-> mode, status |-> r.status,
                                    nth |-> 1],
                          pre |-> vecs]
    /\ UNCHANGED <<comp, run>>
    /\ UNCHANGED decompVars

(* ------------------------------------------------------------------ *)
(* ModalStructAssembler and the finite-element library                  *)
(* ------------------------------------------------------------------ *)
\* an attribute that was assigned / an attribute that does not exist yet
Attr(v) == [set |-> TRUE, v |-> v]
Unset   == [set |-> FALSE, v |-> 0]
\* self.tacs = None
None == 0

\* ModalStructAssembler.__init__; the add_elements callback of the options
\* returns (ndof, ndv)
ModalStructAssembler_init(add_elements) ==
    [add_elements |-> add_elements, nmodes |-> NModes, tacs |-> None,
     comm |-> Unset, ndof |-> Unset, ndv |-> Unset, nnodes |-> Unset]

\* the library before any mesh is loaded; the mesh file has mesh_nnodes nodes
FeInit(mesh_nnodes) ==
    [loads |-> 0, created |-> 0, ndof |-> 0, nnodes |-> 0, dv |-> 0,
     mesh |-> mesh_nnodes]

\* get_tacs without the `if self.tacs is None` guard
get_tacs_unguarded(self, lib, comm) ==
    LET ndof == self.add_elements[1]
        ndv  == self.add_elements[2]
        lib1 == [lib EXCEPT !.loads = @ + 1]
        lib2 == [lib1 EXCEPT !.created = @ + 1, !.ndof = ndof, !.nnodes = lib.mesh]
        self1 == [self EXCEPT !.comm = Attr(comm), !.ndof = Attr(ndof),
                              !.ndv = Attr(ndv), !.tacs = lib2.created,
                              !.nnodes = Attr((3 * lib2.nnodes) \div 3)]
    IN  [self |-> self1, lib |-> lib2, ret |-> self1.tacs]

\* ModalStructAssembler.get_tacs(comm): the mesh is loaded, add_elements gives
\* (ndof, ndv), the model is created with the nodes of the mesh
get_tacs(self, lib, comm) ==
    IF self.tacs = None THEN
        LET ndof == self.add_elements[1]
            ndv  == self.add_elements[2]
            lib1 == [lib EXCEPT !.loads = @ + 1]
            lib2 == [lib1 EXCEPT !.created = @ + 1, !.ndof = ndof, !.nnodes = lib.mesh]
            self1 == [self EXCEPT !.comm = Attr(comm), !.ndof = Attr(ndof),
                                  !.ndv = Attr(ndv), !.tacs = lib2.created,
                                  !.nnodes = Attr((3 * lib2.nnodes) \div 3)]
        IN  [self |-> self1, lib |-> lib2, ret |-> self1.tacs]
    ELSE [self |-> self, lib |-> lib, ret |-> self.tacs]

\* reading an attribute that was never assigned raises AttributeError
AttrError == [ok |-> FALSE, v |-> <<0>>]
Returned(v) == [ok |-> TRUE, v |-> v]

get_ndv(self)    == IF self.ndv.set THEN Returned(<<self.ndv.v>>) ELSE AttrError
get_nnodes(self) == IF self.nnodes.set THEN Returned(<<self.nnodes.v>>) ELSE AttrError
get_modal_sizes_of(self) ==
    IF self.nnodes.set THEN Returned(<<self.nmodes, self.nnodes.v * 3>>) ELSE AttrError

(* ------------------------------------------------------------------ *)
(* ModalDecomp                                                         *)
(* ------------------------------------------------------------------ *)
\* a floating-point value of the decomposition, named by where it comes from:
\* the constant 1.0, a nodal coordinate, an eigenvalue or an eigenvector
\* component of mode `mode` of the eigensolve for design `dv`
Val(src, dv, mode, idx, conv) ==
    [src |-> src, dv |-> dv, mode |-> mode, idx |-> idx, conv |-> conv]
Float1 == Val("one", 0, 0, 0, TRUE)

\* FrequencyAnalysis.extractEigenvector(imode, vec) after solve(): the eigenvalue
\* and the eigenvector, of ndof * nnodes components; when the solve did not
\* converge they are the unconverged estimates (err is above eig_tol)
extractEigenvector(sol, imode, n) ==
    [eig |-> Val("eig", sol.dv, imode, 0, sol.conv),
     vec |-> [c \in Range(n) |-> Val("vec", sol.dv, imode, c, sol.conv)],
     err |-> IF sol.conv THEN "below tol" ELSE "above tol"]

\* tacs.getNodes(xpts): 3 coordinates per node
getNodes(nnodes) == [c \in Range(3 * nnodes) |-> Val("xpts", 0, 0, c, TRUE)]

\* number of entries of a[start::step] for an array of length len
SliceCount(start, step, len) ==
    IF start >= len THEN 0 ELSE (len - start + step - 1) \div step

\* row[start::3] = vec[0::step]
AssignSlice_from0(row, start, vec, step) ==
    LET nl == SliceCount(start, 3, Size(row))
        nr == SliceCount(0, step, Size(vec))
        at(j) == (j - start) \div 3
        hit(j) == j >= start /\ (j - start) % 3 = 0
    IN  IF nr = nl
        THEN [ok |-> TRUE,
              row |-> [j \in DOMAIN row |->
                         IF hit(j) THEN vec[step * at(j)] ELSE row[j]]]
        ELSE IF nr = 1
        THEN [ok |-> TRUE,
              row |-> [j \in DOMAIN row |-> IF hit(j) THEN vec[0] ELSE row[j]]]
        ELSE [ok |-> FALSE, row |-> row]

\* row[start::3] = vec[start::step]; numpy broadcasts one value, and raises
\* ValueError when the two slices differ in length otherwise
AssignSlice(row, start, vec, step) ==
    LET nl == SliceCount(start, 3, Size(row))
        nr == SliceCount(start, step, Size(vec))
        at(j) == (j - start) \div 3
        hit(j) == j >= start /\ (j - start) % 3 = 0
    IN  IF nr = nl
        THEN [ok |-> TRUE,
              row |-> [j \in DOMAIN row |->
                         IF hit(j) THEN vec[start + step * at(j)] ELSE row[j]]]
        ELSE IF nr = 1
        THEN [ok |-> TRUE,
              row |-> [j \in DOMAIN row |-> IF hit(j) THEN vec[start] ELSE row[j]]]
        ELSE [ok |-> FALSE, row |-> row]

\* ModalDecomp before setup: no attribute, no output vector
ModalDecomp_init ==
    [setup |-> FALSE, tacs |-> None, ndv |-> 0, nmodes |-> 0, ndof |-> 0,
     node_size |-> 0, xpts |-> << >>, vec |-> << >>,
     outputs |-> [x_s0 |-> << >>, mode_shape |-> << >>,
                  modal_mass |-> << >>, modal_stiffness |-> << >>],
     sol |-> [dv |-> 0, conv |-> TRUE], status |-> "none"]

\* ModalDecomp.setup, given the assembler after its get_tacs call
ModalDecomp_setup(self, assembler, lib, nmodes) ==
    LET xpts == getNodes(lib.nnodes)
        vec  == [c \in Range(lib.ndof * lib.nnodes) |-> Float1]
        node_size == Size(xpts)
    IN  [self EXCEPT
            !.setup = TRUE, !.tacs = assembler.tacs, !.ndv = assembler.ndv.v,
            !.nmodes = nmodes, !.xpts = xpts, !.vec = vec,
            !.node_size = node_size,
            !.ndof = Size(vec) \div (node_size \div 3),
            !.outputs = [x_s0 |-> [c \in Range(node_size) |-> Float1],
                         mode_shape |-> [i \in Range(nmodes) |->
                                           [c \in Range(node_size) |-> Float1]],
                         modal_mass |-> [i \in Range(nmodes) |-> Float1],
                         modal_stiffness |-> [i \in Range(nmodes) |-> Float1]]]

\* the loop over imode and idof of ModalDecomp.compute, from step s on; step s is
\* mode s \div 3, idof s % 3; st holds outputs, vec and status
RECURSIVE ScatterFrom(_, _, _, _)
ScatterFrom(st, s, self, sol) ==
    IF s = 3 * self.nmodes \/ st.status # "ok" THEN st
    ELSE
        LET imode == s \div 3
            idof  == s % 3
            e     == extractEigenvector(sol, imode, Size(st.vec))
            vec   == IF idof = 0 THEN e.vec ELSE st.vec
            out1  == IF idof = 0
                     THEN [st.outputs EXCEPT !.modal_mass[imode] = Float1,
                                             !.modal_stiffness[imode] = e.eig]
                     ELSE st.outputs
            a     == AssignSlice(out1.mode_shape[imode], idof, vec, self.ndof)
        IN  ScatterFrom([outputs |-> [out1 EXCEPT !.mode_shape[imode] = a.row],
                         vec |-> vec,
                         status |-> IF a.ok THEN "ok" ELSE "ValueError"],
                        s + 1, self, sol)

\* ModalDecomp.compute: the eigensolve for the design variables returns without
\* raising whether or not it converged; sol is what it left behind
ModalDecomp_compute(self, sol) ==
    LET out0 == [self.outputs EXCEPT !.x_s0 = self.xpts]
        st   == ScatterFrom([outputs |-> out0, vec |-> self.vec, status |-> "ok"],
                            0, self, sol)
    IN  [self EXCEPT !.outputs = st.outputs, !.vec = st.vec, !.status = st.status,
                     !.sol = sol]

(* ------------------------------------------------------------------ *)
(* The assembler and the decomposition driven by the runtime           *)
(* ------------------------------------------------------------------ *)
NoReturn == [of |-> "none", r |-> AttrError]

DecompInit ==
    /\ \E ndof \in 1 .. MaxNdof, ndv \in 1 .. MaxNdv :
          asm = ModalStructAssembler_init(<<ndof, ndv>>)
    /\ \E nnodes \in 1 .. MaxNodes : fe = FeInit(nnodes)
    /\ calls = [get_tacs |-> 0, comm |-> 0, ret |-> None, first |-> asm,
                getter |-> NoReturn]
    /\ decomp = ModalDecomp_init

\* bookkeeping of one get_tacs(comm) call that gave r
Counted(r, comm) ==
    [calls EXCEPT !.get_tacs = @ + 1, !.comm = comm, !.ret = r.ret,
                  !.first = IF calls.get_tacs = 0 THEN r.self ELSE @]

\* someone calls assembler.get_tacs(comm)
GetTacs ==
    /\ calls.get_tacs < MaxGetTacs
    /\ \E comm \in 1 .. NComms :
          LET r == get_tacs(asm, fe, comm)
          IN  /\ asm' = r.self
              /\ fe' = r.lib
              /\ calls' = Counted(r, comm)
    /\ UNCHANGED decomp
    /\ UNCHANGED compVars

\* someone calls get_ndv, get_nnodes or get_modal_sizes
Getter ==
    /\ \E g \in {"get_ndv", "get_nnodes", "get_modal_sizes"} :
          calls' = [calls EXCEPT !.getter =
                      [of |-> g,
                       r |-> CASE g = "get_ndv" -> get_ndv(asm)
                               [] g = "get_nnodes" -> get_nnodes(asm)
                               [] g = "get_modal_sizes" -> get_modal_sizes_of(asm)]]
    /\ UNCHANGED <<asm, fe, decomp>>
    /\ UNCHANGED compVars

\* the runtime sets the ModalDecomp component up: get_tacs(self.comm), get_ndv()
DecompSetup ==
    /\ ~decomp.setup
    /\ calls.get_tacs < MaxGetTacs
    /\ \E comm \in 1 .. NComms :
          LET r == get_tacs(asm, fe, comm)
          IN  /\ asm' = r.self
              /\ fe' = r.lib
              /\ calls' = [Counted(r, comm) EXCEPT !.getter =
                              [of |-> "get_ndv", r |-> get_ndv(r.self)]]
              /\ decomp' = ModalDecomp_setup(decomp, r.self, r.lib, r.self.nmodes)
    /\ UNCHANGED compVars

\* the runtime runs the decomposition for a design-variable vector; the
\* eigensolve converges or not
DecompCompute ==
    /\ decomp.setup
    /\ \E dv \in 1 .. NDesigns, conv \in BOOLEAN :
          /\ decomp' = ModalDecomp_compute(decomp, [dv |-> dv, conv |-> conv])
          /\ fe' = [fe EXCEPT !.dv = dv]
    /\ UNCHANGED <<asm, calls>>
    /\ UNCHANGED compVars

(* ------------------------------------------------------------------ *)
(* Specifications                                                      *)
(* ------------------------------------------------------------------ *)
vars == <<comp, run, vecs, last, asm, fe, calls, decomp>>

\* an assembler nobody calls
IdleDecomp ==
    /\ asm = ModalStructAssembler_init(<<MaxNdof, MaxNdv>>)
    /\ fe = FeInit(MaxNodes)
    /\ calls = [get_tacs |-> 0, comm |-> 0, ret |-> None, first |-> asm,
                getter |-> NoReturn]
    /\ decomp = ModalDecomp_init

\* the projection and solver components under the runtime
Init == CompInit /\ IdleDecomp
Next == Write \/ Drop \/ Compute \/ JacvecProduct
Spec == Init /\ [][Next]_vars

\* the assembler and the modal decomposition under the runtime
IdleComp ==
    /\ comp = ModalSolver_init
    /\ run = "nonlinear"
    /\ vecs = Defaults(comp.cls)
    /\ last = [call |-> NoCall, pre |-> vecs]
InitDecomp == IdleComp /\ DecompInit
NextDecomp == GetTacs \/ Getter \/ DecompSetup \/ DecompCompute
SpecDecomp == InitDecomp /\ [][NextDecomp]_vars

(* ------------------------------------------------------------------ *)
(* Properties                                                          *)
(* ------------------------------------------------------------------ *)
\* the sum of the values of the array f over the index set S
RECURSIVE SigmaOver(_, _)
SigmaOver(f, S) ==
    IF S = {} THEN Zero
    ELSE LET x == CHOOSE y \in S : TRUE
         IN  RAdd(f[x], SigmaOver(f, S \ {x}))
Sigma(f) == SigmaOver(f, DOMAIN f)

Called(cls, op) == last.call.op = op /\ comp.cls = cls
Modes == Range(NModes)
Dofs  == Range(NodeSize)

\* C1: after ModalForces.compute, mf has nmodes entries and mf[i] is the sum over j
\* of mode_shape[i,j]*f_s[j], whatever the mf buffer held before.
C1_ForceProjection ==
    Called("ModalForces", "compute") =>
        /\ last.call.status = "ok"
        /\ DOMAIN vecs.outputs.mf = Modes
        /\ \A i \in Modes :
              vecs.outputs.mf[i] =
                 Sigma([j \in Dofs |->
                          RMul(vecs.inputs.mode_shape[i][j], vecs.inputs.f_s[j])])

\* compute ran on a mode_shape whose rows project differently, over an mf buffer
\* that held neither the default nor the result
C1_Witness ==
    /\ Called("ModalForces", "compute")
    /\ vecs.outputs.mf[0] # vecs.outputs.mf[1]
    /\ last.pre.outputs.mf # vecs.outputs.mf
    /\ last.pre.outputs.mf # ModalForces_defaults.outputs.mf

\* C2: after ModalDisplacements.compute, u_s has N entries and u_s[j] is the sum over
\* i of mode_shape[i,j]*z[i], whatever the u_s buffer held before; a second compute
\* on the same inputs leaves u_s as the first one made it.
C2_DisplacementReconstruction ==
    Called("ModalDisplacements", "compute") =>
        /\ last.call.status = "ok"
        /\ DOMAIN vecs.outputs.u_s = Dofs
        /\ \A j \in Dofs :
              vecs.outputs.u_s[j] =
                 Sigma([i \in Modes |->
                          RMul(vecs.inputs.mode_shape[i][j], vecs.inputs.z[i])])
        /\ last.call.nth = 2 => vecs.outputs.u_s = last.pre.outputs.u_s

\* compute ran a second time, on inputs that give different displacements at
\* different degrees of freedom
C2_Witness ==
    /\ Called("ModalDisplacements", "compute")
    /\ last.call.nth = 2
    /\ vecs.outputs.u_s[0] # vecs.outputs.u_s[1]
    /\ vecs.outputs.u_s[0] # Zero

\* C3: ModalSolver.compute with some k[i] = 0 ends in SingularModalStiffness and
\* hands no z to the caller; with every k[i] non-zero it gives z[i] = mf[i]/k[i].
C3_SingularStiffnessIsError ==
    Called("ModalSolver", "compute") =>
        IF \E i \in Modes : vecs.inputs.k[i] = Zero
        THEN /\ last.call.status = "SingularModalStiffness"
             /\ vecs.outputs.z = last.pre.outputs.z
        ELSE /\ last.call.status = "ok"
             /\ \A i \in Modes :
                   vecs.outputs.z[i] = RDiv(vecs.inputs.mf[i], vecs.inputs.k[i])

\* the inner product of two derivative vectors over the variables both hold
Dot(a, b) ==
    Sigma([name \in DOMAIN a \cap DOMAIN b |->
             IF name = "mode_shape"
             THEN Sigma([i \in DOMAIN a[name] |->
                           Sigma([j \in DOMAIN a[name][i] |->
                                    RMul(a[name][i][j], b[name][i][j])])])
             ELSE Sigma([i \in DOMAIN a[name] |-> RMul(a[name][i], b[name][i])])])

\* the derivative vectors d with one entry set
Seeds(d) ==
    {d} \cup
    UNION {{[d EXCEPT ![name][i] = x] : i \in DOMAIN d[name], x \in Vals(name) \ {Zero}}
           : name \in (DOMAIN d) \ {"mode_shape"}}

\* no derivative variable left out, the primal inputs in the domain of the component
FullCall ==
    /\ DVars(last.pre) = DVars(Defaults(comp.cls))
    /\ comp.cls = "ModalSolver" => \A i \in Modes : vecs.inputs.k[i] # Zero

\* C4: for each component, the forward product from zeroed d_outputs and the reverse
\* product from zeroed d_inputs both complete normally, and
\* <fwd(d_in), o_out> = <d_in, rev(o_out)> for every tangent d_in and seed o_out.
C4_AdjointConsistency ==
    LET dflt == Defaults(comp.cls)
        pre  == last.pre
    IN
    /\ (last.call.op = "jacvec" /\ last.call.mode = "fwd" /\ FullCall
          /\ pre.d_outputs = dflt.d_outputs) =>
          /\ last.call.status = "ok"
          /\ \A o \in Seeds(dflt.d_outputs) :
                LET r == compute_jacvec_product(comp, vecs.inputs, dflt.d_inputs, o, "rev")
                IN  /\ r.status = "ok"
                    /\ Dot(vecs.d_outputs, o) = Dot(pre.d_inputs, r.d_inputs)
    /\ (last.call.op = "jacvec" /\ last.call.mode = "rev" /\ FullCall
          /\ pre.d_inputs = dflt.d_inputs) =>
          /\ last.call.status = "ok"
          /\ \A d \in Seeds(dflt.d_inputs) :
                LET r == compute_jacvec_product(comp, vecs.inputs, d, dflt.d_outputs, "fwd")
                IN  /\ r.status = "ok"
                    /\ Dot(r.d_outputs, pre.d_outputs) = Dot(d, vecs.d_inputs)

\* C5: ModalDisplacements.compute_jacvec_product in 'rev' mode adds the sum over j of
\* mode_shape[i,j]*o(u_s)[j] to o(z)[i], on top of what o(z) held.
C5_DispsReverseRule ==
    (Called("ModalDisplacements", "jacvec") /\ last.call.mode = "rev"
        /\ "u_s" \in DOMAIN last.pre.d_outputs /\ "z" \in DOMAIN last.pre.d_inputs) =>
        \A i \in Modes :
            vecs.d_inputs.z[i] =
               RAdd(last.pre.d_inputs.z[i],
                    Sigma([j \in Dofs |->
                             RMul(vecs.inputs.mode_shape[i][j],
                                  last.pre.d_outputs.u_s[j])]))

\* the term the variable name contributes, zero when the vector d leaves it out
Term(d, name, x) == IF name \in DOMAIN d THEN x ELSE Zero

\* C6: for non-zero k, ModalSolver.compute_jacvec_product adds, mode by mode,
\* d(mf[i])/k[i] - mf[i]/k[i]^2 * d(k[i]) to d(z[i]) in 'fwd' mode, and o(z[i])/k[i] to
\* o(mf[i]) and -mf[i]/k[i]^2 * o(z[i]) to o(k[i]) in 'rev' mode; a term is added only
\* if its derivative variable is present, and nothing else changes.
C6_SolverDerivativeRules ==
    LET pre == last.pre
        k   == vecs.inputs.k
        mf  == vecs.inputs.mf
        \* -mf[i]/k[i]^2 * x
        dk(i, x) == RMul(RNeg(RDiv(mf[i], RMul(k[i], k[i]))), x)
    IN
    (Called("ModalSolver", "jacvec") /\ \A i \in Modes : k[i] # Zero) =>
        /\ last.call.status = "ok"
        /\ vecs.inputs = pre.inputs
        /\ last.call.mode = "fwd" =>
              /\ vecs.d_inputs = pre.d_inputs
              /\ DOMAIN vecs.d_outputs = DOMAIN pre.d_outputs
              /\ "z" \in DOMAIN pre.d_outputs =>
                    \A i \in Modes :
                       vecs.d_outputs.z[i] =
                          RAdd(RAdd(pre.d_outputs.z[i],
                                    Term(pre.d_inputs, "mf",
                                         RDiv(pre.d_inputs.mf[i], k[i]))),
                               Term(pre.d_inputs, "k", dk(i, pre.d_inputs.k[i])))
        /\ last.call.mode = "rev" =>
              /\ vecs.d_outputs = pre.d_outputs
              /\ DOMAIN vecs.d_inputs = DOMAIN pre.d_inputs
              /\ "z" \notin DOMAIN pre.d_outputs => vecs.d_inputs = pre.d_inputs
              /\ ("z" \in DOMAIN pre.d_outputs /\ "mf" \in DOMAIN pre.d_inputs) =>
                    \A i \in Modes :
                       vecs.d_inputs.mf[i] =
                          RAdd(pre.d_inputs.mf[i], RDiv(pre.d_outputs.z[i], k[i]))
              /\ ("z" \in DOMAIN pre.d_outputs /\ "k" \in DOMAIN pre.d_inputs) =>
                    \A i \in Modes :
                       vecs.d_inputs.k[i] =
                          RAdd(pre.d_inputs.k[i], dk(i, pre.d_outputs.z[i]))

\* a reverse product ran with a negative stiffness and changed o(k) of that mode
C6_Witness ==
    /\ Called("ModalSolver", "jacvec")
    /\ last.call.mode = "rev"
    /\ \E i \in Modes :
          /\ vecs.inputs.k[i] = Flt(-1)
          /\ vecs.d_inputs.k[i] # last.pre.d_inputs.k[i]

\* the variable of d_outputs and the variable of d_inputs a projection component
\* differentiates
Differentiated(cls) ==
    IF cls = "ModalForces" THEN {<<"d_outputs", "mf">>, <<"d_inputs", "f_s">>}
    ELSE {<<"d_outputs", "u_s">>, <<"d_inputs", "z">>}

\* the vectors v with the tangent of mode_shape zeroed, where they hold one
Frozen(v) ==
    IF "mode_shape" \in DOMAIN v.d_inputs
    THEN [v EXCEPT !.d_inputs.mode_shape = [i \in DOMAIN @ |-> [j \in DOMAIN @[i] |-> Zero]]]
    ELSE v

\* C9: compute_jacvec_product of ModalForces and of ModalDisplacements, in either
\* mode, leaves the mode_shape entry of d_inputs and the primal vectors as they were,
\* changes no derivative variable but d_outputs['mf'] / d_inputs['f_s'] (projector)
\* or d_outputs['u_s'] / d_inputs['z'] (reconstructor), and gives the result it
\* gives for a zero tangent of mode_shape.
C9_FrozenBasis ==
    LET pre == last.pre
        r0  == compute_jacvec_product(comp, pre.inputs, Frozen(pre).d_inputs,
                                      pre.d_outputs, last.call.mode)
    IN
    (last.call.op = "jacvec" /\ comp.cls \in {"ModalForces", "ModalDisplacements"}) =>
        /\ vecs.inputs = pre.inputs
        /\ vecs.outputs = pre.outputs
        /\ DVars(vecs) = DVars(pre)
        /\ \A d \in DVars(pre) \ Differentiated(comp.cls) :
              vecs[d[1]][d[2]] = pre[d[1]][d[2]]
        /\ \A d \in DVars(pre) \ {<<"d_inputs", "mode_shape">>} :
              vecs[d[1]][d[2]] = [d_inputs |-> r0.d_inputs,
                                  d_outputs |-> r0.d_outputs][d[1]][d[2]]

\* a product ran on a projection component whose d_inputs held a non-zero tangent
\* of mode_shape and whose seed was not zero
C9_Witness ==
    /\ last.call.op = "jacvec"
    /\ comp.cls \in {"ModalForces", "ModalDisplacements"}
    /\ "mode_shape" \in DOMAIN last.pre.d_inputs
    /\ last.pre.d_inputs.mode_shape # Defaults(comp.cls).d_inputs.mode_shape
    /\ \/ last.call.mode = "rev" /\ last.pre.d_outputs # Defaults(comp.cls).d_outputs
       \/ last.call.mode = "fwd" /\ Frozen(last.pre).d_inputs # Defaults(comp.cls).d_inputs

\* the entries of the outputs the decomposition computes from eigenpairs
EigenOutputs(out) ==
    {out.modal_stiffness[i] : i \in DOMAIN out.modal_stiffness}
    \cup UNION {{out.mode_shape[i][c] : c \in DOMAIN out.mode_shape[i]}
                : i \in DOMAIN out.mode_shape}

\* C7: a decomposition whose eigensolve did not converge ends in EigensolveFailure,
\* and none of its outputs holds a value of an unconverged eigenpair.
C7_EigensolveFailureSurfaced ==
    (decomp.status # "none" /\ ~decomp.sol.conv) =>
        /\ decomp.status = "EigensolveFailure"
        /\ \A e \in EigenOutputs(decomp.outputs) : e.conv

\* C8: after a successful decomposition of a model with ndof >= 3 per node,
\* mode_shape[i, 3*n+d] is component ndof*n+d of eigenvector i for d in {0,1,2};
\* so every entry of row i is written and no component with in-node index >= 3
\* appears; modal_stiffness[i] is eigenvalue i and modal_mass[i] is 1.0.
C8_ModeShapeScatter ==
    LET out == decomp.outputs
        sol == decomp.sol
    IN
    (decomp.status = "ok" /\ fe.ndof >= 3) =>
        /\ DOMAIN out.mode_shape = Modes
        /\ \A i \in Modes :
              /\ DOMAIN out.mode_shape[i] = Range(3 * fe.nnodes)
              /\ \A n \in Range(fe.nnodes), d \in Range(3) :
                    out.mode_shape[i][3 * n + d] =
                       Val("vec", sol.dv, i, fe.ndof * n + d, sol.conv)
              /\ \A c \in DOMAIN out.mode_shape[i] :
                    /\ out.mode_shape[i][c].src = "vec"
                    /\ out.mode_shape[i][c].idx % fe.ndof < 3
              /\ out.modal_stiffness[i] = Val("eig", sol.dv, i, 0, sol.conv)
              /\ out.modal_mass[i] = Float1

\* a decomposition succeeded on a model of several nodes with more than 3 degrees
\* of freedom per node
C8_Witness ==
    /\ decomp.status = "ok"
    /\ fe.ndof > 3
    /\ fe.nnodes > 1
    /\ decomp.sol.conv

\* C10: over any sequence of get_tacs calls the mesh is loaded and the model created
\* at most once, on the first call; every call returns that model, and comm, ndof,
\* ndv and nnodes stay as the first call set them; get_ndv, get_nnodes and
\* get_modal_sizes return a value only once get_tacs has been called.
C10_OneTimeConstruction ==
    /\ fe.loads <= 1 /\ fe.created <= 1
    /\ calls.get_tacs = 0 => fe.loads = 0 /\ fe.created = 0 /\ asm.tacs = None
                             /\ ~asm.comm.set
    /\ calls.get_tacs >= 1 =>
          /\ fe.loads = 1 /\ fe.created = 1
          /\ calls.first.tacs # None
          /\ calls.ret = calls.first.tacs
          /\ asm = calls.first
          /\ asm.comm.set /\ asm.ndof.set /\ asm.ndv.set /\ asm.nnodes.set
    /\ calls.getter.r.ok => calls.get_tacs >= 1

\* get_tacs was called again, with another communicator than the first call's, and
\* a getter returned a value
C10_Witness ==
    /\ calls.get_tacs >= 2
    /\ calls.comm # asm.comm.v
    /\ calls.getter.r.ok

====
